---------------------------- MODULE Spec2Model ----------------------------
(***************************************************************************)
(* Model of the company-enrichment agent: the four-step LangGraph pipeline *)
(* process_query -> enrich -> search_managers -> summarize, its step       *)
(* functions, the Apollo enrichment tool and the processCompany entry      *)
(* point; and the five-step pipeline of agent.ts, process_query -> search  *)
(* -> extract_domain -> enrich -> summarize (AgentSpec).                   *)
(*                                                                         *)
(* Texts the code inspects character by character (the query, the domain   *)
(* the language model answers) are sequences of one-character strings.     *)
(* The lead-extraction answer of the language model is a sequence of JSON  *)
(* tokens.  Error messages, which the code only copies and tests for       *)
(* truthiness, are strings.  A record field that is undefined in           *)
(* JavaScript is a key missing from the record's DOMAIN.                    *)
(***************************************************************************)
EXTENDS Naturals, Integers, Sequences, FiniteSets, TLC

VARIABLES
  pc,        \* where the invocation (or the step harness) stands
  query,     \* processCompany's argument
  env,       \* TRUE when the three credentials are present
  st,        \* the graph state: one key per channel that holds a value
  upd,       \* the update returned by the step that ran last
  io,        \* the capability answers consumed by the step that ran last
  calls,     \* external-capability calls made so far, in order
  ran,       \* step functions executed so far, in order
  errs,      \* the error updates returned so far, in order
  outs,      \* every update returned so far, with the step that returned it
  apolloSeen,\* the Apollo exchange the enrichment tool went through, if any
  envelope   \* what processCompany returned

vars == <<pc, query, env, st, upd, io, calls, ran, errs, outs, apolloSeen, envelope>>

--------------------------------------------------------------------------
(* Bounds of the exploration *)

\* longest language-model answer enumerated in query resolution
MaxLen == 6

\* longest lead-extraction answer (in JSON tokens) enumerated
MaxTokens == 3

--------------------------------------------------------------------------
(* Characters and text helpers *)

LowerSeq == <<"a","b","c","d","e","f","g","h","i","j","k","l","m",
              "n","o","p","q","r","s","t","u","v","w","x","y","z">>

UpperSeq == <<"A","B","C","D","E","F","G","H","I","J","K","L","M",
              "N","O","P","Q","R","S","T","U","V","W","X","Y","Z">>

LowerChars == {LowerSeq[i] : i \in 1..Len(LowerSeq)}

UpperChars == {UpperSeq[i] : i \in 1..Len(UpperSeq)}

DigitChars == {"0","1","2","3","4","5","6","7","8","9"}

Whitespace == {" ", "\t", "\n"}

\* [a-zA-Z]
AlphaChars == LowerChars \cup UpperChars

\* [a-zA-Z0-9]
AlnumChars == AlphaChars \cup DigitChars

\* [a-zA-Z0-9-]
AlnumHyphenChars == AlnumChars \cup {"-"}

MinOf(S) == CHOOSE x \in S : \A y \in S : x <= y

MaxOf(S) == CHOOSE x \in S : \A y \in S : x >= y

\* String.prototype.trim
Trim(s) ==
  LET keep == {i \in 1..Len(s) : s[i] \notin Whitespace}
  IN  IF keep = {} THEN << >> ELSE SubSeq(s, MinOf(keep), MaxOf(keep))

ToLowerChar(c) ==
  IF c \in UpperChars
    THEN LowerSeq[CHOOSE i \in 1..Len(UpperSeq) : UpperSeq[i] = c]
    ELSE c

\* String.prototype.toLowerCase
ToLowerCase(s) == [i \in 1..Len(s) |-> ToLowerChar(s[i])]

\* all sequences over S of length at most n
RECURSIVE SeqsUpTo(_, _)
SeqsUpTo(S, n) ==
  IF n = 0 THEN {<< >>}
  ELSE LET shorter == SeqsUpTo(S, n - 1)
       IN  shorter \cup {Append(s, c) : s \in {t \in shorter : Len(t) = n - 1}, c \in S}

RECURSIVE Repeat(_, _)
Repeat(c, n) == IF n = 0 THEN << >> ELSE <<c>> \o Repeat(c, n - 1)

--------------------------------------------------------------------------
(* validateDomain: /^[a-zA-Z0-9][a-zA-Z0-9-]{1,61}[a-zA-Z0-9]\.[a-zA-Z]{2,}$/ *)

\* the quantifier {1,61} of the middle class
RegexMidMin == 1

RegexMidMax == 61

\* the quantifier {2,} of the last class
RegexTldMin == 2

\* k is the number of characters the middle class consumes
validateDomain(domain) ==
  \E k \in RegexMidMin..RegexMidMax :
    /\ Len(domain) >= k + 3 + RegexTldMin
    /\ domain[1] \in AlnumChars
    /\ \A i \in 2..(k + 1) : domain[i] \in AlnumHyphenChars
    /\ domain[k + 2] \in AlnumChars
    /\ domain[k + 3] = "."
    /\ \A i \in (k + 4)..Len(domain) : domain[i] \in AlphaChars

--------------------------------------------------------------------------
(* JavaScript values *)

Has(r, k) == k \in DOMAIN r

\* truthiness of an optional string-valued field
TruthyStr(r, k) == Has(r, k) /\ r[k] # ""

\* truthiness of an optional text-valued field (a sequence of characters)
TruthyText(r, k) == Has(r, k) /\ r[k] # << >>

\* error instanceof Error ? error.message : fallback
ErrMessage(fault, fallback) == IF fault.isError THEN fault.message ELSE fallback

\* what a rejected capability call throws: an Error (its message may be the
\* empty string) or a value that is not an Error
Faults ==
  { [isError |-> TRUE, message |-> "capability failure"],
    [isError |-> TRUE, message |-> ""],
    [isError |-> FALSE] }

--------------------------------------------------------------------------
(* The Apollo HTTP exchange, as axios.get presents it to the tool *)

FullOrganization ==
  [name |-> "Acme", website_url |-> "http://acme.example", industry |-> "software"]

ApolloOutcomes ==
  { \* 200 with an organization that has its required fields
    [kind |-> "response", status |-> 200, data |-> [organization |-> FullOrganization]],
    \* 200 with an organization missing name, or missing website_url
    [kind |-> "response", status |-> 200,
     data |-> [organization |-> [website_url |-> "http://acme.example"]]],
    [kind |-> "response", status |-> 200,
     data |-> [organization |-> [name |-> "Acme"]]],
    \* 200 without an organization: the company is not known
    [kind |-> "response", status |-> 200, data |-> [request_id |-> "r1"]],
    \* 200 with an error indication in the body
    [kind |-> "response", status |-> 200, data |-> [error |-> "quota exceeded"]],
    \* a 2xx status other than 200
    [kind |-> "response", status |-> 204, data |-> [request_id |-> "r1"]],
    \* axios rejects: the 10 s timeout, a network error (no response)
    [kind |-> "axios_error", message |-> "timeout of 10000ms exceeded",
     response |-> [none |-> TRUE]],
    [kind |-> "axios_error", message |-> "Network Error",
     response |-> [none |-> TRUE]],
    \* axios rejects: a status outside 2xx, with and without a message in the body
    [kind |-> "axios_error", message |-> "Request failed with status code 500",
     response |-> [status |-> 500, data |-> [request_id |-> "r1"]]],
    [kind |-> "axios_error", message |-> "Request failed with status code 404",
     response |-> [status |-> 404, data |-> [message |-> "Not Found"]]],
    \* anything else thrown inside the tool
    [kind |-> "throw", fault |-> [isError |-> TRUE, message |-> "capability failure"]],
    [kind |-> "throw", fault |-> [isError |-> FALSE]] }

\* the kinds of enrichment failure the spec tells apart
IsTransportFailure(a) ==
  \/ a.kind = "axios_error"
  \/ a.kind = "response" /\ a.status # 200

IsNotFound(a) ==
  a.kind = "response" /\ a.status = 200 /\ ~Has(a.data, "error")
    /\ ~Has(a.data, "organization")

\* the JSON text of the tool's catch block for the three error classes:
\* JSON.stringify({ error: error.message, code: error.name })
ToolError(name, message) == [error |-> message, code |-> name]

\* enrichCompanyTool: the JSON document the tool resolves to.  hasKey is
\* process.env.APOLLO_API_KEY being set.
enrichCompanyTool(domain, hasKey, apollo) ==
  LET cleanDomain == ToLowerCase(Trim(domain))
  IN
  IF domain = << >>
    THEN ToolError("ValidationError", "Domain is required and must be a string")
  ELSE IF ~validateDomain(cleanDomain)
    THEN ToolError("ValidationError", "Invalid domain format")
  ELSE IF ~hasKey
    THEN ToolError("ValidationError", "APOLLO_API_KEY not found in environment variables")
  ELSE IF apollo.kind = "axios_error"
    THEN [error |-> "Apollo API error: " \o
                    (IF Has(apollo.response, "data") /\ TruthyStr(apollo.response.data, "message")
                       THEN apollo.response.data.message ELSE apollo.message),
          code |-> "APOLLO_API_ERROR",
          statusCode |-> IF Has(apollo.response, "status") THEN apollo.response.status ELSE 0]
  ELSE IF apollo.kind = "throw"
    THEN [error |-> "Unexpected error: " \o ErrMessage(apollo.fault, "Unknown error"),
          code |-> "UNKNOWN_ERROR"]
  ELSE IF apollo.status # 200
    THEN ToolError("APIError", "Apollo API returned status " \o ToString(apollo.status))
  ELSE IF TruthyStr(apollo.data, "error")
    THEN ToolError("EnrichmentError", apollo.data.error)
  ELSE IF ~Has(apollo.data, "organization")
    THEN ToolError("EnrichmentError", "Company not found in Apollo database")
  ELSE IF ~TruthyStr(apollo.data.organization, "name")
          \/ ~TruthyStr(apollo.data.organization, "website_url")
    THEN ToolError("EnrichmentError", "Company data missing required fields")
  ELSE apollo.data.organization

\* the tool reaches axios.get only past its three input checks
ToolCallsApollo(domain, hasKey) ==
  domain # << >> /\ validateDomain(ToLowerCase(Trim(domain))) /\ hasKey

--------------------------------------------------------------------------
(* JSON texts of the lead-extraction answer, as sequences of tokens:       *)
(* "[", "]", ",", " " (insignificant whitespace), the value tokens below,  *)
(* and "x", a word of prose, which is no JSON.                             *)

AnnObject ==
  [name |-> "Ann", role |-> "CTO", linkedin |-> "https://linkedin.com/in/ann"]

\* an object with neither name nor role, and its profile under linkedin_url
BobObject == [linkedin_url |-> "https://linkedin.com/in/bob"]

EveObject ==
  [name |-> "Eve", role |-> "VP Engineering",
   linkedin |-> "https://linkedin.com/in/eve", email |-> "eve@acme.example"]

\* the JSON value a value token stands for
TokenValue(t) ==
  CASE t = "o" -> [t |-> "object", fields |-> AnnObject]
    [] t = "p" -> [t |-> "object", fields |-> BobObject]
    [] t = "e" -> [t |-> "object", fields |-> EveObject]
    [] t = "n" -> [t |-> "null"]
    [] t = "s" -> [t |-> "scalar"]

ValueTokens == {"o", "p", "e", "n", "s"}

StripWs(toks) == SelectSeq(toks, LAMBDA t : t \notin Whitespace)

RECURSIVE ParseValue(_, _)
RECURSIVE ParseItems(_, _, _)

\* one JSON value starting at token i: [ok, val, next]
ParseValue(toks, i) ==
  IF i > Len(toks) THEN [ok |-> FALSE]
  ELSE IF toks[i] \in ValueTokens
    THEN [ok |-> TRUE, val |-> TokenValue(toks[i]), next |-> i + 1]
  ELSE IF toks[i] = "["
    THEN IF i + 1 <= Len(toks) /\ toks[i + 1] = "]"
           THEN [ok |-> TRUE, val |-> [t |-> "array", items |-> << >>], next |-> i + 2]
           ELSE ParseItems(toks, i + 1, << >>)
  ELSE [ok |-> FALSE]

\* the elements of an array after its "[", up to and including its "]"
ParseItems(toks, i, acc) ==
  LET v == ParseValue(toks, i)
  IN  IF ~v.ok \/ v.next > Len(toks) THEN [ok |-> FALSE]
      ELSE IF toks[v.next] = ","
        THEN ParseItems(toks, v.next + 1, Append(acc, v.val))
      ELSE IF toks[v.next] = "]"
        THEN [ok |-> TRUE, val |-> [t |-> "array", items |-> Append(acc, v.val)],
              next |-> v.next + 1]
      ELSE [ok |-> FALSE]

\* JSON.parse: [ok |-> TRUE, val |-> value], or [ok |-> FALSE] when it throws
JsonParse(toks) ==
  LET s == StripWs(toks)
      r == ParseValue(s, 1)
  IN  IF r.ok /\ r.next = Len(s) + 1 THEN [ok |-> TRUE, val |-> r.val]
      ELSE [ok |-> FALSE]

\* content.match(/\[[\s\S]*\]/): from the first "[" to the last "]"
HasJsonMatch(content) ==
  \E i, j \in 1..Len(content) : i < j /\ content[i] = "[" /\ content[j] = "]"

JsonMatch(content) ==
  SubSeq(content,
         MinOf({i \in 1..Len(content) : content[i] = "["}),
         MaxOf({j \in 1..Len(content) : content[j] = "]"}))

\* the fields read off one element of the parsed array (a scalar or an
\* array element has none of them)
LeadFields(v) == IF v.t = "object" THEN v.fields ELSE [none |-> ""]

\* parsed.map(lead => ({name: lead.name || "Unknown", ...}))
MapLead(v) ==
  LET f == LeadFields(v)
      base == [name |-> IF TruthyStr(f, "name") THEN f.name ELSE "Unknown",
               role |-> IF TruthyStr(f, "role") THEN f.role ELSE "Unknown",
               linkedin |-> IF TruthyStr(f, "linkedin") THEN f.linkedin
                            ELSE IF TruthyStr(f, "linkedin_url") THEN f.linkedin_url
                            ELSE ""]
  IN  IF TruthyStr(f, "email")
        THEN [k \in {"name", "role", "linkedin", "email"} |->
                IF k = "email" THEN f.email ELSE base[k]]
        ELSE base

\* slice(0, 3) of the fallback
PlaceholderMax == 3

\* the fallback: one placeholder per search result, for the first three
PlaceholderLeads(results) ==
  [i \in 1..(IF Len(results) < PlaceholderMax THEN Len(results) ELSE PlaceholderMax) |->
     [name |-> "Manager " \o ToString(i),
      role |-> "Engineering Manager",
      linkedin |-> results[i].url]]

\* a strict parse only: no search for an array inside the answer
ExtractLeads_strictOnly(content, results) ==
  LET parsed == JsonParse(Trim(content))
  IN  IF ~parsed.ok THEN PlaceholderLeads(results)
      ELSE IF parsed.val.t # "array" THEN << >>
      ELSE IF \E i \in 1..Len(parsed.val.items) : parsed.val.items[i].t = "null"
        THEN PlaceholderLeads(results)
      ELSE [i \in 1..Len(parsed.val.items) |-> MapLead(parsed.val.items[i])]

\* a fallback that forgets slice(0, 3)
ExtractLeads_noSlice(content, results) ==
  LET c == Trim(content)
      jsonContent == IF HasJsonMatch(c) THEN JsonMatch(c) ELSE c
      parsed == JsonParse(jsonContent)
  IN  IF ~parsed.ok THEN [i \in 1..Len(results) |->
                            [name |-> "Manager " \o ToString(i),
                             role |-> "Engineering Manager",
                             linkedin |-> results[i].url]]
      ELSE IF parsed.val.t # "array" THEN << >>
      ELSE IF \E i \in 1..Len(parsed.val.items) : parsed.val.items[i].t = "null"
        THEN PlaceholderLeads(results)
      ELSE [i \in 1..Len(parsed.val.items) |-> MapLead(parsed.val.items[i])]

\* lines 171-205 of searchManagerLeads: the leads read off the model's answer.
\* Reading .name of a null element throws inside the try, so it too ends in
\* the fallback.
ExtractLeads(content, results) ==
  LET c == Trim(content)
      jsonContent == IF HasJsonMatch(c) THEN JsonMatch(c) ELSE c
      parsed == JsonParse(jsonContent)
  IN  IF ~parsed.ok THEN PlaceholderLeads(results)
      ELSE IF parsed.val.t # "array" THEN << >>
      ELSE IF \E i \in 1..Len(parsed.val.items) : parsed.val.items[i].t = "null"
        THEN PlaceholderLeads(results)
      ELSE [i \in 1..Len(parsed.val.items) |-> MapLead(parsed.val.items[i])]

--------------------------------------------------------------------------
(* The step functions.  Each yields [upd, calls, io]: the update it        *)
(* returns, the capability calls it made, and the answers it consumed.     *)

NoIo == [none |-> TRUE]

\* the catch block of every step
ErrorUpdate(message) == [error |-> message, currentStep |-> "end"]

HumanMessage(content) == [role |-> "human", content |-> content, isString |-> TRUE]

AIMessage(content) == [role |-> "ai", content |-> content, isString |-> TRUE]

\* the sentinel the prompt asks for when the query names no domain
InvalidSentinel == <<"i", "n", "v", "a", "l", "i", "d">>

\* processQuery asking the model a second time when its first call threw
processQuery_retry(state, llm) ==
  IF state.messages = << >>
       \/ ~TruthyText(state.messages[Len(state.messages)], "content")
       \/ ~state.messages[Len(state.messages)].isString
    THEN [upd |-> ErrorUpdate("Invalid message content"), calls |-> << >>, io |-> NoIo]
  ELSE IF llm.kind = "throw"
    THEN [upd |-> ErrorUpdate(ErrMessage(llm.fault, "Could not extract company name")),
          calls |-> <<"llm", "llm">>, io |-> [llm |-> llm]]
  ELSE LET domain == ToLowerCase(Trim(llm.content))
       IN  IF domain = InvalidSentinel \/ ~validateDomain(domain)
             THEN [upd |-> ErrorUpdate("Could not extract valid company domain"),
                   calls |-> <<"llm">>, io |-> [llm |-> llm]]
             ELSE [upd |-> [companyDomain |-> domain, currentStep |-> "enrich"],
                   calls |-> <<"llm">>, io |-> [llm |-> llm]]

\* processQuery storing the model's answer without validating it
processQuery_noValidate(state, llm) ==
  IF state.messages = << >>
       \/ ~TruthyText(state.messages[Len(state.messages)], "content")
       \/ ~state.messages[Len(state.messages)].isString
    THEN [upd |-> ErrorUpdate("Invalid message content"), calls |-> << >>, io |-> NoIo]
  ELSE IF llm.kind = "throw"
    THEN [upd |-> ErrorUpdate(ErrMessage(llm.fault, "Could not extract company name")),
          calls |-> <<"llm">>, io |-> [llm |-> llm]]
  ELSE [upd |-> [companyDomain |-> ToLowerCase(Trim(llm.content)),
                 currentStep |-> "enrich"],
        calls |-> <<"llm">>, io |-> [llm |-> llm]]

processQuery(state, llm) ==
  IF state.messages = << >>
       \/ ~TruthyText(state.messages[Len(state.messages)], "content")
       \/ ~state.messages[Len(state.messages)].isString
    THEN [upd |-> ErrorUpdate("Invalid message content"), calls |-> << >>, io |-> NoIo]
  ELSE IF llm.kind = "throw"
    THEN [upd |-> ErrorUpdate(ErrMessage(llm.fault, "Could not extract company name")),
          calls |-> <<"llm">>, io |-> [llm |-> llm]]
  ELSE LET domain == ToLowerCase(Trim(llm.content))
       IN  IF domain = InvalidSentinel \/ ~validateDomain(domain)
             THEN [upd |-> ErrorUpdate("Could not extract valid company domain"),
                   calls |-> <<"llm">>, io |-> [llm |-> llm]]
             ELSE [upd |-> [companyDomain |-> domain, currentStep |-> "enrich"],
                   calls |-> <<"llm">>, io |-> [llm |-> llm]]

\* enrichCompanyData without its defensive validateDomain
enrichCompanyData_noRevalidate(state, hasKey, apollo) ==
  IF ~TruthyText(state, "companyDomain")
    THEN [upd |-> ErrorUpdate("No company domain available"), calls |-> << >>, io |-> NoIo]
  ELSE LET parsed == enrichCompanyTool(state.companyDomain, hasKey, apollo)
           used == IF ToolCallsApollo(state.companyDomain, hasKey)
                     THEN [apollo |-> apollo] ELSE NoIo
       IN  IF TruthyStr(parsed, "error")
             THEN [upd |-> ErrorUpdate("Failed to parse company data"),
                   calls |-> <<"enrich">>, io |-> used]
           ELSE IF ~TruthyStr(parsed, "name")
             THEN [upd |-> ErrorUpdate("Company data missing required fields"),
                   calls |-> <<"enrich">>, io |-> used]
           ELSE [upd |-> [companyInfo |-> parsed, currentStep |-> "search_managers"],
                 calls |-> <<"enrich">>, io |-> used]

\* The tool always resolves to a JSON document, so JSON.parse itself never
\* throws; `throw new Error(parsed.error)` is thrown inside the inner try and
\* caught by its own catch, which replaces it by "Failed to parse company data".
enrichCompanyData(state, hasKey, apollo) ==
  IF ~TruthyText(state, "companyDomain")
    THEN [upd |-> ErrorUpdate("No company domain available"), calls |-> << >>, io |-> NoIo]
  ELSE IF ~validateDomain(state.companyDomain)
    THEN [upd |-> ErrorUpdate("Invalid domain format"), calls |-> << >>, io |-> NoIo]
  ELSE LET parsed == enrichCompanyTool(state.companyDomain, hasKey, apollo)
           used == IF ToolCallsApollo(state.companyDomain, hasKey)
                     THEN [apollo |-> apollo] ELSE NoIo
       IN  IF TruthyStr(parsed, "error")
             THEN [upd |-> ErrorUpdate("Failed to parse company data"),
                   calls |-> <<"enrich">>, io |-> used]
           ELSE IF ~TruthyStr(parsed, "name")
             THEN [upd |-> ErrorUpdate("Company data missing required fields"),
                   calls |-> <<"enrich">>, io |-> used]
           ELSE [upd |-> [companyInfo |-> parsed, currentStep |-> "search_managers"],
                 calls |-> <<"enrich">>, io |-> used]

\* !state.companyInfo?.name
HasCompanyName(state) ==
  Has(state, "companyInfo") /\ TruthyStr(state.companyInfo, "name")

\* !searchResponse.results || searchResponse.results.length === 0
NoResults(response) == ~Has(response, "results") \/ Len(response.results) = 0

\* searchManagerLeads without its guard on the company name
searchManagerLeads_noNameCheck(state, search, llm) ==
  IF search.kind = "throw"
    THEN [upd |-> ErrorUpdate(ErrMessage(search.fault, "Failed to search for manager leads")),
          calls |-> <<"search">>, io |-> [search |-> search]]
  ELSE IF NoResults(search.response)
    THEN [upd |-> [leads |-> << >>, currentStep |-> "summarize"],
          calls |-> <<"search">>, io |-> [search |-> search]]
  ELSE IF llm.kind = "throw"
    THEN [upd |-> ErrorUpdate(ErrMessage(llm.fault, "Failed to search for manager leads")),
          calls |-> <<"search", "llm">>, io |-> [search |-> search, llm |-> llm]]
  ELSE [upd |-> [leads |-> ExtractLeads(llm.content, search.response.results),
                 currentStep |-> "summarize"],
        calls |-> <<"search", "llm">>, io |-> [search |-> search, llm |-> llm]]

\* searchManagerLeads sending an empty result list to the model all the same
searchManagerLeads_noEmptyCheck(state, search, llm) ==
  IF ~HasCompanyName(state)
    THEN [upd |-> ErrorUpdate("No company name provided"), calls |-> << >>, io |-> NoIo]
  ELSE IF search.kind = "throw"
    THEN [upd |-> ErrorUpdate(ErrMessage(search.fault, "Failed to search for manager leads")),
          calls |-> <<"search">>, io |-> [search |-> search]]
  ELSE IF llm.kind = "throw"
    THEN [upd |-> ErrorUpdate(ErrMessage(llm.fault, "Failed to search for manager leads")),
          calls |-> <<"search", "llm">>, io |-> [search |-> search, llm |-> llm]]
  ELSE [upd |-> [leads |-> ExtractLeads(llm.content,
                                        IF Has(search.response, "results")
                                          THEN search.response.results ELSE << >>),
                 currentStep |-> "summarize"],
        calls |-> <<"search", "llm">>, io |-> [search |-> search, llm |-> llm]]

searchManagerLeads(state, search, llm) ==
  IF ~HasCompanyName(state)
    THEN [upd |-> ErrorUpdate("No company name provided"), calls |-> << >>, io |-> NoIo]
  ELSE IF search.kind = "throw"
    THEN [upd |-> ErrorUpdate(ErrMessage(search.fault, "Failed to search for manager leads")),
          calls |-> <<"search">>, io |-> [search |-> search]]
  ELSE IF NoResults(search.response)
    THEN [upd |-> [leads |-> << >>, currentStep |-> "summarize"],
          calls |-> <<"search">>, io |-> [search |-> search]]
  ELSE IF llm.kind = "throw"
    THEN [upd |-> ErrorUpdate(ErrMessage(llm.fault, "Failed to search for manager leads")),
          calls |-> <<"search", "llm">>, io |-> [search |-> search, llm |-> llm]]
  ELSE [upd |-> [leads |-> ExtractLeads(llm.content, search.response.results),
                 currentStep |-> "summarize"],
        calls |-> <<"search", "llm">>, io |-> [search |-> search, llm |-> llm]]

\* summarizeFindings without its catch block: what the model throws leaves
\* the step as an exception and no update is returned
summarizeFindings_rethrow(state, llm) ==
  IF ~HasCompanyName(state)
    THEN [upd |-> ErrorUpdate("Missing company information for summary"),
          calls |-> << >>, io |-> NoIo]
  ELSE IF llm.kind = "throw"
    THEN [upd |-> [thrown |-> llm.fault], calls |-> <<"llm">>, io |-> [llm |-> llm]]
  ELSE [upd |-> [messages |-> Append(state.messages, AIMessage(llm.content)),
                 currentStep |-> "end"],
        calls |-> <<"llm">>, io |-> [llm |-> llm]]

summarizeFindings(state, llm) ==
  IF ~HasCompanyName(state)
    THEN [upd |-> ErrorUpdate("Missing company information for summary"),
          calls |-> << >>, io |-> NoIo]
  ELSE IF llm.kind = "throw"
    THEN [upd |-> ErrorUpdate(ErrMessage(llm.fault, "Failed to generate summary")),
          calls |-> <<"llm">>, io |-> [llm |-> llm]]
  ELSE [upd |-> [messages |-> Append(state.messages, AIMessage(llm.content)),
                 currentStep |-> "end"],
        calls |-> <<"llm">>, io |-> [llm |-> llm]]

--------------------------------------------------------------------------
(* StateAnnotation: how an update is merged into the graph state *)

\* a companyInfo channel that folds the record it held into the new one
Reduce_accumulateInfo(channel, left, right) ==
  IF channel \in {"leads", "messages"} THEN left \o right
  ELSE IF channel = "companyInfo"
    THEN [k \in DOMAIN right \cup {"previous"} |->
            IF k = "previous" THEN left ELSE right[k]]
  ELSE right

\* a leads reducer that keeps what the channel held and drops the update
Reduce_keepLeft(channel, left, right) ==
  IF channel = "leads" THEN left
  ELSE IF channel = "messages" THEN left \o right ELSE right

\* the reducer of the leads and messages channels; every other channel
\* keeps the last value written
Reduce(channel, left, right) ==
  IF channel \in {"leads", "messages"} THEN left \o right ELSE right

\* default: () => []
ChannelDefault(channel) == << >>

Merge(state, update) ==
  [k \in DOMAIN state \cup DOMAIN update |->
     IF Has(update, k)
       THEN IF Has(state, k) THEN Reduce(k, state[k], update[k]) ELSE update[k]
       ELSE state[k]]

\* the channels after agent.invoke has written its input: leads and messages
\* start from their default and take the input through their reducer
InputState(input) ==
  Merge([leads |-> ChannelDefault("leads"), messages |-> ChannelDefault("messages")],
        input)

--------------------------------------------------------------------------
(* The inputs explored *)

\* new TavilySearch({ maxResults: 6 })
TavilyMaxResults == 6

Text(isString, text) == [isString |-> isString, text |-> text]

\* processCompany's argument: empty, blank, a padded query, and a value that
\* is no string
Queries ==
  { Text(TRUE, << >>), Text(TRUE, <<" ", "\t">>), Text(TRUE, <<" ", "q", " ">>),
    Text(FALSE, << >>) }

DomainAlphabet == {"a", "A", "-", "."}

\* answers beyond the enumerated ones: the sentinel, padding, digits, a
\* character of no class, inner whitespace, and first labels of 63 and 64
ExtraDomainAnswers ==
  { InvalidSentinel,
    <<" ", "a", "a", "a", ".", "a", "a", "\n">>,
    <<"a", "1", "a", ".", "a", "a">>,
    <<"a", "a", "a", ".", "a", "1">>,
    <<"a", "_", "a", ".", "a", "a">>,
    <<"a", " ", "a", ".", "a", "a">>,
    <<"a", "a", ".", "a", "a", ".", "a", "a">>,
    Repeat("a", 63) \o <<".", "a", "a">>,
    Repeat("a", 64) \o <<".", "a", "a">> }

DomainAnswers == SeqsUpTo(DomainAlphabet, MaxLen) \cup ExtraDomainAnswers

LlmOk(content) == [kind |-> "ok", content |-> content]

Throw(fault) == [kind |-> "throw", fault |-> fault]

Throws == {Throw(f) : f \in Faults}

\* what the model may answer in query resolution
LlmDomainOutcomes == {LlmOk(c) : c \in DomainAnswers} \cup Throws

TokenAlphabet == {"[", "]", ",", "o", "x"}

\* answers beyond the enumerated ones: two and three leads, an array inside
\* prose, null and scalar elements, nesting, padding
ExtraLeadAnswers ==
  { <<"[", "o", ",", "p", "]">>,
    <<"[", "e", ",", "o", ",", "p", "]">>,
    <<"x", "[", "o", ",", "e", "]", "x">>,
    <<"x", "[", "p", "]">>,
    <<"[", "o", "]", "x", "]">>,
    <<"[", "n", "]">>,
    <<"[", "o", ",", "n", "]">>,
    <<"n">>, <<"s">>, <<"p">>,
    <<"[", "s", "]">>,
    <<"[", "[", "o", "]", "]">>,
    <<" ", "[", " ", "o", " ", "]", " ">> }

LeadAnswers == SeqsUpTo(TokenAlphabet, MaxTokens) \cup ExtraLeadAnswers

\* what the model may answer in lead extraction
LlmLeadOutcomes == {LlmOk(c) : c \in LeadAnswers} \cup Throws

\* what the model may answer in summarization: a summary, an empty text
LlmSummaryOutcomes == {LlmOk(<<"S">>), LlmOk(<< >>)} \cup Throws

SearchResult(i) ==
  [title |-> "profile " \o ToString(i),
   url |-> "https://linkedin.com/in/r" \o ToString(i),
   content |-> "snippet"]

\* what the web search may answer: 0..6 results, no results field, a fault
SearchOutcomes ==
  {[kind |-> "ok", response |-> [results |-> [i \in 1..n |-> SearchResult(i)], query |-> "q"]]
     : n \in 0..TavilyMaxResults}
  \cup {[kind |-> "ok", response |-> [query |-> "q"]]}
  \cup Throws

--------------------------------------------------------------------------
(* processCompany and the compiled graph *)

NoState == << >>

NoEnvelope == << >>

NoUpdate == [none |-> TRUE]

NoApollo == [kind |-> "none"]

StepNames == <<"process_query", "enrich", "search_managers", "summarize">>

\* a last edge that leads to a node name the graph does not have
NextNode_noEnd(n) ==
  CASE n = "process_query" -> "enrich"
    [] n = "enrich" -> "search_managers"
    [] n = "search_managers" -> "summarize"
    [] n = "summarize" -> "end"

\* edges that send the run back to enrich after the lead search
NextNode_revisit(n) ==
  CASE n = "process_query" -> "enrich"
    [] n = "enrich" -> "search_managers"
    [] n = "search_managers" -> "enrich"
    [] n = "summarize" -> "END"

\* addEdge: the node that runs after node n, whatever n returned
NextNode(n) ==
  CASE n = "process_query" -> "enrich"
    [] n = "enrich" -> "search_managers"
    [] n = "search_managers" -> "summarize"
    [] n = "summarize" -> "END"

With(r, k, v) == [x \in DOMAIN r \cup {k} |-> IF x = k THEN v ELSE r[x]]

FailureMessage == "Failed to process company information"

\* the fallback text of the summary, kept as one piece of text
NoSummaryAvailable == <<"No summary available">>

\* an envelope without the "No summary available" fallback: an empty summary
\* leaves the field out
ResultEnvelope_noFallback(result) ==
  IF TruthyStr(result, "error")
    THEN [success |-> FALSE, error |-> result.error, message |-> FailureMessage]
  ELSE LET last == result.messages[Len(result.messages)]
           e0 == [success |-> TRUE, leads |-> result.leads]
           e1 == IF last.content # << >> THEN With(e0, "summary", last.content) ELSE e0
           e2 == IF Has(result, "companyDomain")
                   THEN With(e1, "companyDomain", result.companyDomain) ELSE e1
       IN  IF Has(result, "companyInfo")
             THEN With(e2, "companyData", result.companyInfo) ELSE e2

\* lines 344-359: the envelope built from the final graph state
ResultEnvelope(result) ==
  IF TruthyStr(result, "error")
    THEN [success |-> FALSE, error |-> result.error, message |-> FailureMessage]
  ELSE LET last == result.messages[Len(result.messages)]
           e0 == [success |-> TRUE,
                  summary |-> IF last.content # << >> THEN last.content
                              ELSE NoSummaryAvailable,
                  leads |-> result.leads]
           e1 == IF Has(result, "companyDomain")
                   THEN With(e0, "companyDomain", result.companyDomain) ELSE e0
       IN  IF Has(result, "companyInfo")
             THEN With(e1, "companyData", result.companyInfo) ELSE e1

\* lines 360-367: the envelope of the catch block
CaughtEnvelope(message) ==
  [success |-> FALSE, error |-> message, message |-> FailureMessage]

\* a node has run: its update is merged, and what it did is recorded
Ran(name, r) ==
  /\ st' = Merge(st, r.upd)
  /\ upd' = r.upd
  /\ io' = r.io
  /\ calls' = calls \o [i \in 1..Len(r.calls) |-> [step |-> name, capability |-> r.calls[i]]]
  /\ ran' = Append(ran, name)
  /\ errs' = IF Has(r.upd, "error")
               THEN Append(errs, [step |-> name, error |-> r.upd.error])
               ELSE errs
  /\ outs' = Append(outs, [step |-> name, upd |-> r.upd])
  /\ apolloSeen' = IF Has(r.io, "apollo") THEN r.io.apollo ELSE apolloSeen

Init ==
  /\ pc = "start"
  /\ query \in Queries
  /\ env \in BOOLEAN
  /\ st = NoState
  /\ upd = NoUpdate
  /\ io = NoIo
  /\ calls = << >>
  /\ ran = << >>
  /\ errs = << >>
  /\ outs = << >>
  /\ apolloSeen = NoApollo
  /\ envelope = NoEnvelope

\* processCompany up to agent.invoke: the query check, then
\* buildCompanyEnrichmentAgent, which exits the process without credentials
Start ==
  /\ pc = "start"
  /\ IF ~query.isString \/ Trim(query.text) = << >>
       THEN /\ envelope' = CaughtEnvelope("Company query is required and must be a non-empty string")
            /\ pc' = "returned"
            /\ st' = st
       ELSE IF ~env
         THEN /\ pc' = "exited"
              /\ UNCHANGED <<envelope, st>>
         ELSE /\ st' = InputState([messages |-> <<HumanMessage(Trim(query.text))>>,
                                   currentStep |-> "process_query",
                                   leads |-> << >>])
              /\ pc' = "process_query"
              /\ envelope' = envelope
  /\ UNCHANGED <<query, env, upd, io, calls, ran, errs, outs, apolloSeen>>

RunProcessQuery ==
  /\ pc = "process_query"
  /\ \E llm \in LlmDomainOutcomes : Ran("process_query", processQuery(st, llm))
  /\ pc' = NextNode("process_query")
  /\ UNCHANGED <<query, env, envelope>>

RunEnrich ==
  /\ pc = "enrich"
  /\ \E apollo \in ApolloOutcomes : Ran("enrich", enrichCompanyData(st, env, apollo))
  /\ pc' = NextNode("enrich")
  /\ UNCHANGED <<query, env, envelope>>

RunSearchManagers ==
  /\ pc = "search_managers"
  /\ \E search \in SearchOutcomes, llm \in LlmLeadOutcomes :
       Ran("search_managers", searchManagerLeads(st, search, llm))
  /\ pc' = NextNode("search_managers")
  /\ UNCHANGED <<query, env, envelope>>

RunSummarize ==
  /\ pc = "summarize"
  /\ \E llm \in LlmSummaryOutcomes : Ran("summarize", summarizeFindings(st, llm))
  /\ pc' = NextNode("summarize")
  /\ UNCHANGED <<query, env, envelope>>

\* agent.invoke has resolved: processCompany maps the final state
Return ==
  /\ pc = "END"
  /\ envelope' = ResultEnvelope(st)
  /\ pc' = "returned"
  /\ UNCHANGED <<query, env, st, upd, io, calls, ran, errs, outs, apolloSeen>>

Next ==
  \/ Start
  \/ RunProcessQuery
  \/ RunEnrich
  \/ RunSearchManagers
  \/ RunSummarize
  \/ Return

Spec == Init /\ [][Next]_vars

\* node n completes: the calls it awaits have settled, its update is merged
\* and the node after it is due.  Next allows such a step in every state
\* with pc = n, whatever the calls answer.
NodeStep(n) == pc = n /\ pc' = NextNode(n)

\* every capability call eventually resolves or rejects, and the event loop
\* then resumes the awaiting function: a step that is due is eventually taken
FairSpec ==
  /\ Init /\ [][Next]_vars
  /\ WF_vars(Start) /\ WF_vars(Return)
  /\ WF_pc(NodeStep("process_query")) /\ WF_pc(NodeStep("enrich"))
  /\ WF_pc(NodeStep("search_managers")) /\ WF_pc(NodeStep("summarize"))

--------------------------------------------------------------------------
(* The step harness: one step function applied to one input state, the     *)
(* way a unit test of the step contract calls it.                          *)

BaseState ==
  [messages |-> <<HumanMessage(<<"q">>)>>, leads |-> << >>, currentStep |-> "process_query"]

\* conversations a step may be handed: none, a text message, an empty text,
\* a content that is no string, a longer conversation
MessageInputs ==
  { << >>,
    <<HumanMessage(<<"q">>)>>,
    <<HumanMessage(<< >>)>>,
    <<[role |-> "human", content |-> <<"q">>, isString |-> FALSE]>>,
    <<HumanMessage(<<"q">>), AIMessage(<<"S">>)>> }

\* companyInfo values a step may be handed (besides none at all)
CompanyInfoInputs ==
  { FullOrganization,
    [website_url |-> "http://acme.example"],
    [name |-> "", website_url |-> "http://acme.example"] }

LeadsInputs == { << >>, <<AnnObject>> }

ExampleDomain == <<"a", "a", "a", ".", "a", "a">>

\* with and without companyInfo, leads and an error of an earlier step
LaterStates(step) ==
  LET s0 == With(With(BaseState, "currentStep", step), "companyDomain", ExampleDomain)
      s1 == {s0} \cup {With(s0, "companyInfo", c) : c \in CompanyInfoInputs}
      s2 == {With(s, "leads", l) : s \in s1, l \in LeadsInputs}
  IN  s2 \cup {With(With(s, "error", "earlier failure"), "currentStep", "end") : s \in s2}

ProcessQueryStates == {With(BaseState, "messages", m) : m \in MessageInputs}

EnrichStates ==
  LET s0 == With(BaseState, "currentStep", "enrich")
  IN  {s0} \cup {With(s0, "companyDomain", d) : d \in DomainAnswers}

StepInit ==
  /\ \/ pc = "call_process_query" /\ st \in ProcessQueryStates /\ env = TRUE
     \/ pc = "call_enrich" /\ st \in EnrichStates /\ env \in BOOLEAN
     \/ pc = "call_search_managers" /\ st \in LaterStates("search_managers") /\ env = TRUE
     \/ pc = "call_summarize" /\ st \in LaterStates("summarize") /\ env = TRUE
  /\ query = Text(TRUE, <<"q">>)
  /\ upd = NoUpdate
  /\ io = NoIo
  /\ calls = << >>
  /\ ran = << >>
  /\ errs = << >>
  /\ outs = << >>
  /\ apolloSeen = NoApollo
  /\ envelope = NoEnvelope

CallProcessQuery ==
  /\ pc = "call_process_query"
  /\ \E llm \in LlmDomainOutcomes : Ran("process_query", processQuery(st, llm))
  /\ pc' = "stepped"
  /\ UNCHANGED <<query, env, envelope>>

CallEnrich ==
  /\ pc = "call_enrich"
  /\ \E apollo \in ApolloOutcomes : Ran("enrich", enrichCompanyData(st, env, apollo))
  /\ pc' = "stepped"
  /\ UNCHANGED <<query, env, envelope>>

CallSearchManagers ==
  /\ pc = "call_search_managers"
  /\ \E search \in SearchOutcomes, llm \in LlmLeadOutcomes :
       Ran("search_managers", searchManagerLeads(st, search, llm))
  /\ pc' = "stepped"
  /\ UNCHANGED <<query, env, envelope>>

CallSummarize ==
  /\ pc = "call_summarize"
  /\ \E llm \in LlmSummaryOutcomes : Ran("summarize", summarizeFindings(st, llm))
  /\ pc' = "stepped"
  /\ UNCHANGED <<query, env, envelope>>

\* the enrichment step called once more on the state it left, the Apollo
\* stub answering as it did the first time
CallEnrichAgain ==
  /\ pc = "stepped"
  /\ ran = <<"enrich">>
  /\ \E apollo \in ApolloOutcomes :
       /\ apolloSeen # NoApollo => apollo = apolloSeen
       /\ Ran("enrich", enrichCompanyData(st, env, apollo))
  /\ pc' = "stepped_again"
  /\ UNCHANGED <<query, env, envelope>>

StepNext ==
  \/ CallProcessQuery
  \/ CallEnrich
  \/ CallEnrichAgain
  \/ CallSearchManagers
  \/ CallSummarize

StepSpec == StepInit /\ [][StepNext]_vars

--------------------------------------------------------------------------
(* The five-step pipeline of agent.ts: process_query -> search ->          *)
(* extract_domain -> enrich -> summarize.  Its step functions have no      *)
(* try/catch: what a capability call throws leaves the step as an          *)
(* exception, written here as a result with a thrown field and no update.  *)

\* new TavilySearch({ maxResults: 4 })
AgentTavilyMaxResults == 4

\* longest answer of the model enumerated in extract_domain
MaxAgentLen == 4

\* `${error}`: the string form of what was thrown; a value that is no Error
\* prints as some text that is not a domain
ErrString(fault) ==
  IF fault.isError
    THEN IF fault.message = "" THEN "Error" ELSE "Error: " \o fault.message
    ELSE "[object Object]"

\* ApolloCompanyTool._call: the JSON document the tool resolves to.  axios
\* rejects on a status outside 2xx; neither the status nor an error field of
\* the body is looked at.
ApolloCompanyTool_call(domain, apollo) ==
  IF apollo.kind = "axios_error"
    THEN [error |-> "Apollo API error: AxiosError: " \o apollo.message]
  ELSE IF apollo.kind = "throw"
    THEN [error |-> "Apollo API error: " \o ErrString(apollo.fault)]
  ELSE IF Has(apollo.data, "organization")
    THEN apollo.data.organization
  ELSE [error |-> "Company not found"]

\* the domain_extract tool: the model's answer as it is, or the text of the
\* catch block, kept as one piece of text
domainExtract(results, llm) ==
  IF llm.kind = "throw"
    THEN <<"Error extracting domain: " \o ErrString(llm.fault)>>
  ELSE llm.content

agent_processQuery(state, llm) ==
  LET lastMessage == state.messages[Len(state.messages)]
  IN  IF TruthyText(lastMessage, "content") /\ lastMessage.isString
        THEN IF llm.kind = "throw"
               THEN [thrown |-> llm.fault, calls |-> <<"llm">>, io |-> [llm |-> llm]]
             ELSE [upd |-> [companyName |-> Trim(llm.content), currentStep |-> "search"],
                   calls |-> <<"llm">>, io |-> [llm |-> llm]]
      ELSE [upd |-> [error |-> "Could not extract company name", currentStep |-> "end"],
            calls |-> << >>, io |-> NoIo]

\* const { results } = ...: a response without results gives
\* companyInfo: { results: undefined }
agent_searchCompany(state, search) ==
  IF ~TruthyText(state, "companyName")
    THEN [upd |-> [error |-> "No company name provided", currentStep |-> "end"],
          calls |-> << >>, io |-> NoIo]
  ELSE IF search.kind = "throw"
    THEN [thrown |-> search.fault, calls |-> <<"search">>, io |-> [search |-> search]]
  ELSE [upd |-> [messages |-> Append(state.messages,
                                     AIMessage(<<"Searched for ">> \o state.companyName)),
                 currentStep |-> "extract_domain",
                 companyName |-> state.companyName,
                 companyInfo |-> IF Has(search.response, "results")
                                   THEN [results |-> search.response.results]
                                   ELSE << >>],
        calls |-> <<"search">>, io |-> [search |-> search]]

\* an empty result list is truthy: the tool is invoked all the same
agent_extractDomain(state, llm) ==
  IF ~Has(state, "companyInfo") \/ ~Has(state.companyInfo, "results")
    THEN [upd |-> [error |-> "No search results available", currentStep |-> "end"],
          calls |-> << >>, io |-> NoIo]
  ELSE [upd |-> [companyDomain |-> domainExtract(state.companyInfo.results, llm),
                 currentStep |-> "enrich"],
        calls |-> <<"llm">>, io |-> [llm |-> llm]]

\* the tool always resolves to a JSON document, so JSON.parse does not throw
\* and whatever the tool answered becomes companyInfo
agent_enrichCompanyData(state, apollo) ==
  IF ~TruthyText(state, "companyDomain")
    THEN [upd |-> [error |-> "No company domain available", currentStep |-> "end"],
          calls |-> << >>, io |-> NoIo]
  ELSE [upd |-> [companyInfo |-> ApolloCompanyTool_call(state.companyDomain, apollo),
                 currentStep |-> "summarize"],
        calls |-> <<"enrich">>, io |-> [apollo |-> apollo]]

agent_summarizeFindings(state, llm) ==
  IF llm.kind = "throw"
    THEN [thrown |-> llm.fault, calls |-> <<"llm">>, io |-> [llm |-> llm]]
  ELSE [upd |-> [messages |-> Append(state.messages, AIMessage(llm.content)),
                 currentStep |-> "end"],
        calls |-> <<"llm">>, io |-> [llm |-> llm]]

\* only the messages channel has a reducer and a default
AgentInputState(input) == Merge([messages |-> ChannelDefault("messages")], input)

AgentStepNames == <<"process_query", "search", "extract_domain", "enrich", "summarize">>

AgentNextNode(n) ==
  CASE n = "process_query" -> "search"
    [] n = "search" -> "extract_domain"
    [] n = "extract_domain" -> "enrich"
    [] n = "enrich" -> "summarize"
    [] n = "summarize" -> "END"

\* lines 273-288: the envelope built from the final graph state
AgentResultEnvelope(result) ==
  IF TruthyStr(result, "error")
    THEN [success |-> FALSE, error |-> result.error, message |-> FailureMessage]
  ELSE LET e0 == [success |-> TRUE,
                  summary |-> result.messages[Len(result.messages)].content]
           e1 == IF Has(result, "companyName")
                   THEN With(e0, "companyName", result.companyName) ELSE e0
           e2 == IF Has(result, "companyDomain")
                   THEN With(e1, "companyDomain", result.companyDomain) ELSE e1
       IN  IF Has(result, "companyInfo")
             THEN With(e2, "companyData", result.companyInfo) ELSE e2

\* the queries handed to processCompany: an empty and a padded string
AgentQueries == {Text(TRUE, << >>), Text(TRUE, <<" ", "q", " ">>)}

\* what the model may answer when asked for the company name
LlmNameOutcomes == {LlmOk(<<"N">>), LlmOk(<<" ">>)} \cup Throws

AgentSearchOutcomes ==
  {[kind |-> "ok", response |-> [results |-> [i \in 1..n |-> SearchResult(i)], query |-> "q"]]
     : n \in {0, 1, AgentTavilyMaxResults}}
  \cup {[kind |-> "ok", response |-> [query |-> "q"]]}
  \cup Throws

AgentDomainAnswers == SeqsUpTo(DomainAlphabet, MaxAgentLen) \cup ExtraDomainAnswers

LlmAgentDomainOutcomes == {LlmOk(c) : c \in AgentDomainAnswers} \cup Throws

\* a node has run: it threw, and agent.invoke rejects, or its update is
\* merged and the next node is due
AgentRan(name, r) ==
  IF Has(r, "thrown")
    THEN /\ pc' = "rejected"
         /\ io' = r.io
         /\ calls' = calls \o [i \in 1..Len(r.calls) |->
                                 [step |-> name, capability |-> r.calls[i]]]
         /\ ran' = Append(ran, name)
         /\ UNCHANGED <<st, upd, errs, outs, apolloSeen>>
    ELSE /\ Ran(name, r)
         /\ pc' = AgentNextNode(name)

AgentInit ==
  /\ pc = "load"
  /\ query \in AgentQueries
  /\ env \in BOOLEAN
  /\ st = NoState
  /\ upd = NoUpdate
  /\ io = NoIo
  /\ calls = << >>
  /\ ran = << >>
  /\ errs = << >>
  /\ outs = << >>
  /\ apolloSeen = NoApollo
  /\ envelope = NoEnvelope

\* the module exits the process at load time without the three credentials;
\* processCompany makes no check of its own and hands the query to the graph
AgentStart ==
  /\ pc = "load"
  /\ IF ~env
       THEN pc' = "exited" /\ st' = st
       ELSE /\ st' = AgentInputState([messages |-> <<HumanMessage(query.text)>>,
                                      currentStep |-> "process_query"])
            /\ pc' = "process_query"
  /\ UNCHANGED <<query, env, upd, io, calls, ran, errs, outs, apolloSeen, envelope>>

AgentRunProcessQuery ==
  /\ pc = "process_query"
  /\ \E llm \in LlmNameOutcomes : AgentRan("process_query", agent_processQuery(st, llm))
  /\ UNCHANGED <<query, env, envelope>>

AgentRunSearch ==
  /\ pc = "search"
  /\ \E search \in AgentSearchOutcomes : AgentRan("search", agent_searchCompany(st, search))
  /\ UNCHANGED <<query, env, envelope>>

AgentRunExtractDomain ==
  /\ pc = "extract_domain"
  /\ \E llm \in LlmAgentDomainOutcomes :
       AgentRan("extract_domain", agent_extractDomain(st, llm))
  /\ UNCHANGED <<query, env, envelope>>

AgentRunEnrich ==
  /\ pc = "enrich"
  /\ \E apollo \in ApolloOutcomes : AgentRan("enrich", agent_enrichCompanyData(st, apollo))
  /\ UNCHANGED <<query, env, envelope>>

AgentRunSummarize ==
  /\ pc = "summarize"
  /\ \E llm \in LlmSummaryOutcomes : AgentRan("summarize", agent_summarizeFindings(st, llm))
  /\ UNCHANGED <<query, env, envelope>>

AgentReturn ==
  /\ pc = "END"
  /\ envelope' = AgentResultEnvelope(st)
  /\ pc' = "returned"
  /\ UNCHANGED <<query, env, st, upd, io, calls, ran, errs, outs, apolloSeen>>

AgentNext ==
  \/ AgentStart
  \/ AgentRunProcessQuery
  \/ AgentRunSearch
  \/ AgentRunExtractDomain
  \/ AgentRunEnrich
  \/ AgentRunSummarize
  \/ AgentReturn

AgentSpec == AgentInit /\ [][AgentNext]_vars

--------------------------------------------------------------------------
(* The domain-syntax invariant of the data model: lowercase, label         *)
(* characters a-z, 0-9 and '-', labels of 1 to 63 characters, at least one *)
(* dot, an alphabetic top-level label of at least 2 characters.            *)

LabelChars == LowerChars \cup DigitChars \cup {"-"}

DotsOf(d) == {i \in 1..Len(d) : d[i] = "."}

\* the labels are what the dots and the two ends delimit; each has 1 to 63
\* characters
LabelsWellSized(d) ==
  LET cuts == DotsOf(d) \cup {0, Len(d) + 1}
  IN  \A i, j \in cuts :
        (i < j /\ ~\E k \in cuts : i < k /\ k < j) => (j - i - 1 >= 1 /\ j - i - 1 <= 63)

DomainSyntaxInvariant(d) ==
  /\ \A i \in 1..Len(d) : d[i] \in LabelChars \cup {"."}
  /\ DotsOf(d) # {}
  /\ LabelsWellSized(d)
  /\ Len(d) - MaxOf(DotsOf(d)) >= 2
  /\ \A i \in (MaxOf(DotsOf(d)) + 1)..Len(d) : d[i] \in LowerChars

--------------------------------------------------------------------------
(* Claims *)

\* C1: once a step has returned an update that sets error, no later step
\* function is executed and no further capability call is made.
C1_NothingRunsAfterError ==
  [][errs # << >> => (ran' = ran /\ calls' = calls)]_vars

\* C2: when a step fails, the error of the returned envelope is the message
\* set by the first step that failed.
C2_EnvelopeCarriesFirstError ==
  (pc = "returned" /\ errs # << >>) =>
    (Has(envelope, "error") /\ envelope.error = errs[1].error)

\* C3: success is returned only if all four steps completed without setting
\* error: a validated companyDomain, a companyInfo with a name, leads set by
\* the lead search, and the model's summary appended.
C3_SuccessMeansAllStepsSucceeded ==
  (pc = "returned" /\ envelope.success) =>
    /\ errs = << >>
    /\ ran = StepNames
    /\ Has(st, "companyDomain") /\ validateDomain(st.companyDomain)
    /\ HasCompanyName(st)
    /\ Has(upd, "messages")
    /\ st.messages[Len(st.messages)].role = "ai"

\* C4: the envelope has summary iff success, and error and message iff not
\* success, for every input.
C4_EnvelopeShape ==
  pc = "returned" =>
    /\ Has(envelope, "summary") <=> envelope.success
    /\ Has(envelope, "error") <=> ~envelope.success
    /\ Has(envelope, "message") <=> ~envelope.success

\* a blank query has been answered
C4_Witness ==
  /\ pc = "returned"
  /\ query.isString /\ query.text # << >> /\ Trim(query.text) = << >>
  /\ ~envelope.success

\* C5: companyDomain, when present in the pipeline's state, satisfies the
\* domain-syntax invariant.
C5_StoredDomainIsWellFormed ==
  Has(st, "companyDomain") => DomainSyntaxInvariant(st.companyDomain)

\* query resolution has stored a domain that the model spelt differently
C5_Witness ==
  /\ ran = <<"process_query">>
  /\ Has(st, "companyDomain")
  /\ Has(io, "llm") /\ io.llm.kind = "ok" /\ io.llm.content # st.companyDomain


\* the malformed domain strings of the claims: no top-level label, a
\* character outside a-z, 0-9, '-' (and the separating dot), or a first label
\* of a single character
Malformed(d) ==
  \/ DotsOf(d) = {} \/ d[Len(d)] = "."
  \/ \E i \in 1..Len(d) : d[i] \notin LabelChars \cup {"."}
  \/ MinOf(DotsOf(d)) = 2

\* the step that ran set error, stored no companyDomain and did not call the
\* enrichment capability
RejectedDomain ==
  /\ Has(upd, "error")
  /\ ~Has(upd, "companyDomain")
  /\ \A i \in 1..Len(calls) : calls[i].capability # "enrich"

\* C6 as stated: every malformed string answered by the model in query
\* resolution, or found in companyDomain by the enrichment step, is rejected.
C6_MalformedAsReceivedRejected ==
  pc = "stepped" =>
    /\ (ran = <<"process_query">> /\ Has(io, "llm") /\ io.llm.kind = "ok"
          /\ Malformed(io.llm.content)) => RejectedDomain
    /\ (ran = <<"enrich">> /\ Has(st, "companyDomain")
          /\ Malformed(st.companyDomain)) => RejectedDomain

\* C6, amended: every string whose trimmed, lowercased form is malformed,
\* answered by the model in query resolution or found in companyDomain by the
\* enrichment step, is rejected: error is set, nothing is stored into
\* companyDomain, the enrichment capability is not called.
C6_MalformedAfterNormalisingRejected ==
  pc = "stepped" =>
    /\ (ran = <<"process_query">> /\ Has(io, "llm") /\ io.llm.kind = "ok"
          /\ Malformed(ToLowerCase(Trim(io.llm.content)))) => RejectedDomain
    /\ (ran = <<"enrich">> /\ Has(st, "companyDomain")
          /\ Malformed(ToLowerCase(Trim(st.companyDomain)))) => RejectedDomain

\* the enrichment step has met a malformed companyDomain that is not empty
C6_Witness ==
  /\ pc = "stepped"
  /\ ran = <<"enrich">>
  /\ TruthyText(st, "companyDomain")
  /\ Malformed(ToLowerCase(Trim(st.companyDomain)))
  /\ upd = ErrorUpdate("Invalid domain format")

\* C7: every string that satisfies the domain-syntax invariant is accepted by
\* the validator, and query resolution stores it unchanged without an error.
C7_WellFormedDomainAccepted ==
  (pc = "stepped" /\ ran = <<"process_query">> /\ Has(io, "llm") /\ io.llm.kind = "ok"
     /\ DomainSyntaxInvariant(io.llm.content)) =>
    /\ validateDomain(io.llm.content)
    /\ ~Has(upd, "error")
    /\ Has(upd, "companyDomain") /\ upd.companyDomain = io.llm.content

\* C8: with a company name and a web search of zero results (or no results
\* field), the lead search returns leads = [] and currentStep = "summarize",
\* sets no error and does not call the language model.
C8_ZeroResultsGiveNoLeads ==
  (pc = "stepped" /\ ran = <<"search_managers">>
     /\ Has(st, "companyInfo") /\ Has(st.companyInfo, "name") /\ st.companyInfo.name # ""
     /\ Has(io, "search") /\ io.search.kind = "ok"
     /\ (~Has(io.search.response, "results") \/ io.search.response.results = << >>)) =>
    /\ upd = [leads |-> << >>, currentStep |-> "summarize"]
    /\ \A i \in 1..Len(calls) : calls[i].capability # "llm"

\* the web search has answered with an empty results list
C8_Witness ==
  /\ pc = "stepped"
  /\ ran = <<"search_managers">>
  /\ Has(io, "search") /\ io.search.kind = "ok"
  /\ Has(io.search.response, "results") /\ io.search.response.results = << >>
  /\ Has(upd, "leads")

\* the step returned min(3, n) placeholders, one per result in result order
PlaceholdersReturned ==
  LET results == io.search.response.results
      n == Len(results)
  IN  /\ ~Has(upd, "error")
      /\ upd.currentStep = "summarize"
      /\ Has(upd, "leads")
      /\ Len(upd.leads) = (IF n < 3 THEN n ELSE 3)
      /\ \A i \in 1..Len(upd.leads) :
           /\ upd.leads[i].linkedin = results[i].url
           /\ upd.leads[i].role = "Engineering Manager"

\* the lead search got n >= 1 results and an answer of the model
LeadAnswerSeen ==
  /\ pc = "stepped"
  /\ ran = <<"search_managers">>
  /\ Has(io, "search") /\ io.search.kind = "ok"
  /\ Has(io.search.response, "results") /\ Len(io.search.response.results) >= 1
  /\ Has(io, "llm") /\ io.llm.kind = "ok"

\* C9 as stated: when the model's answer cannot be parsed as JSON, the step
\* returns min(3, n) placeholder leads.
C9_UnparsableAnswerGivesPlaceholders ==
  (LeadAnswerSeen /\ ~JsonParse(io.llm.content).ok) => PlaceholdersReturned

\* C9, amended: when neither the model's answer nor its substring from the
\* first '[' to the last ']' (if it has one) can be parsed as JSON, the step
\* returns min(3, n) placeholder leads, one per search result in result
\* order with its url as linkedin, currentStep = "summarize" and no error.
C9_NothingParsableGivesPlaceholders ==
  (LeadAnswerSeen /\ ~JsonParse(io.llm.content).ok
     /\ (HasJsonMatch(io.llm.content) => ~JsonParse(JsonMatch(io.llm.content)).ok)) =>
    PlaceholdersReturned

\* more than three results, and an answer with brackets that hold no JSON
C9_Witness ==
  /\ LeadAnswerSeen
  /\ Len(io.search.response.results) > 3
  /\ HasJsonMatch(io.llm.content)
  /\ ~JsonParse(JsonMatch(io.llm.content)).ok
  /\ Len(upd.leads) = 3

\* the error values that identify a company the enrichment does not know
NotFoundErrors == {"COMPANY_NOT_FOUND", "Company not found in Apollo database"}

\* C10: when the enrichment capability fails, the envelope has success false
\* and no summary, and its error tells a transport failure from a not-found
\* answer, the latter identified as COMPANY_NOT_FOUND or an equivalent.
C10_EnrichmentFailureIdentified ==
  (pc = "returned" /\ (IsTransportFailure(apolloSeen) \/ IsNotFound(apolloSeen))) =>
    /\ ~envelope.success
    /\ ~Has(envelope, "summary")
    /\ Has(envelope, "error")
    /\ IsNotFound(apolloSeen) <=> envelope.error \in NotFoundErrors

\* the update the named step returned (the first one, if it ran twice)
OutOf(step) ==
  LET i == CHOOSE j \in 1..Len(outs) :
             outs[j].step = step /\ \A k \in 1..(j - 1) : outs[k].step # step
  IN  outs[i].upd

\* C11: on a run in which no step sets error, query resolution stores the
\* lowercased (and trimmed) domain the model answered, and the envelope has
\* success true, that companyDomain, and as leads exactly the sequence the
\* lead search returned, nothing duplicated and nothing dropped.
C11_SuccessfulRunKeepsDomainAndLeads ==
  /\ (pc = "enrich" /\ errs = << >>) =>
       st.companyDomain = ToLowerCase(Trim(io.llm.content))
  /\ (pc = "returned" /\ ran = StepNames /\ errs = << >>) =>
       /\ envelope.success
       /\ envelope.companyDomain = OutOf("process_query").companyDomain
       /\ envelope.leads = OutOf("search_managers").leads

\* a run without error whose lead search extracted two leads from a mixed
\* case answer of query resolution
C11_Witness ==
  /\ pc = "returned" /\ ran = StepNames /\ errs = << >>
  /\ Len(OutOf("search_managers").leads) = 2
  /\ Len(envelope.leads) = 2
  /\ envelope.companyDomain = <<"a", "a", "a", ".", "a", "a">>

\* C12: the enrichment step run twice on the same companyDomain, the
\* capability returning the same record both times, returns the same
\* companyInfo both times and leaves exactly that record in the state: the
\* second update replaces the field.
C12_EnrichTwiceSameCompanyInfo ==
  (pc = "stepped_again" /\ Has(outs[1].upd, "companyInfo")) =>
    /\ Has(outs[2].upd, "companyInfo")
    /\ outs[2].upd.companyInfo = outs[1].upd.companyInfo
    /\ st.companyInfo = outs[1].upd.companyInfo
    /\ errs = << >>

\* the step has enriched the same domain twice from the same Apollo record
C12_Witness ==
  /\ pc = "stepped_again"
  /\ ran = <<"enrich", "enrich">>
  /\ Len(calls) = 2
  /\ apolloSeen.kind = "response"
  /\ Has(st, "companyInfo") /\ st.companyInfo = FullOrganization

\* a step function has just been called on a state
StepCalled == pc \in {"stepped", "stepped_again"}

LastStep == ran[Len(ran)]

\* the input the step that ran requires was missing from its state
MissingInput ==
  CASE LastStep = "process_query" ->
         \/ st.messages = << >>
         \/ ~TruthyText(st.messages[Len(st.messages)], "content")
         \/ ~st.messages[Len(st.messages)].isString
    [] LastStep = "enrich" -> ~TruthyText(st, "companyDomain")
    [] LastStep \in {"search_managers", "summarize"} -> ~HasCompanyName(st)

\* a capability call of the step that ran threw, or the Apollo exchange
\* failed in transport
CapabilityFailed ==
  \/ Has(io, "llm") /\ io.llm.kind = "throw"
  \/ Has(io, "search") /\ io.search.kind = "throw"
  \/ Has(io, "apollo") /\ (io.apollo.kind = "throw" \/ IsTransportFailure(io.apollo))

\* C13: every step function returns a state update, whatever its input
\* state and whatever its capability calls do: an update that sets error is
\* exactly {error, currentStep: "end"}, a missing required input or a failed
\* capability call gives such an update, and nothing is thrown to the
\* executor in place of an update.
C13_StepsTurnFaultsIntoUpdates ==
  StepCalled =>
    /\ Has(upd, "currentStep")
    /\ ~Has(upd, "thrown")
    /\ Has(upd, "error") => (DOMAIN upd = {"error", "currentStep"} /\ upd.currentStep = "end")
    /\ (MissingInput \/ CapabilityFailed) => Has(upd, "error")

\* the summary call of the language model threw an Error
C13_Witness ==
  /\ pc = "stepped"
  /\ ran = <<"summarize">>
  /\ Has(io, "llm") /\ io.llm.kind = "throw"
  /\ upd = ErrorUpdate("capability failure")

\* C14: in the five-step pipeline, extract_domain stores into companyDomain
\* only a value that satisfies the domain-syntax invariant; when the model
\* answers a text that is no valid domain, or the extraction tool returns
\* an error text, the step sets error and leaves companyDomain unset.
C14_ExtractDomainStoresOnlyValidDomains ==
  /\ Has(st, "companyDomain") => DomainSyntaxInvariant(st.companyDomain)
  /\ (pc = "enrich" /\ Has(io, "llm")
        /\ (io.llm.kind = "throw" \/ ~DomainSyntaxInvariant(io.llm.content))) =>
       (Has(upd, "error") /\ ~Has(st, "companyDomain"))

\* the Apollo exchange gave no organization: not found, or a failed call
AgentEnrichmentFailed(a) ==
  a.kind # "response" \/ ~Has(a.data, "organization")

\* C15: in the five-step pipeline, when the enrichment capability reports
\* not-found or fails, the enrichment step sets error and processCompany
\* returns success false; it never returns success true with an error
\* indication as companyData.
C15_AgentEnrichmentFailureFailsTheRun ==
  /\ (pc = "summarize" /\ Has(io, "apollo") /\ AgentEnrichmentFailed(io.apollo)) =>
       Has(upd, "error")
  /\ (pc = "returned" /\ apolloSeen # NoApollo /\ AgentEnrichmentFailed(apolloSeen)) =>
       ~envelope.success
  /\ (pc = "returned" /\ envelope.success /\ Has(envelope, "companyData")) =>
       ~Has(envelope.companyData, "error")

\* C16: in every state of the four-step pipeline, once a step's update has
\* been merged, error set implies currentStep = "end"; and every update
\* returned after an update that set error has currentStep = "end".
C16_ErrorMeansTerminalStep ==
  /\ Has(st, "error") => st.currentStep = "end"
  /\ \A i, j \in 1..Len(outs) :
       (i < j /\ Has(outs[i].upd, "error")) => outs[j].upd.currentStep = "end"

\* the lead search failed and the summary step, run all the same, succeeded
C16_Witness ==
  /\ pc = "END"
  /\ Len(errs) = 1 /\ errs[1].step = "search_managers"
  /\ Has(st, "error")
  /\ ~Has(upd, "error") /\ Has(upd, "messages")

\* C17 as stated: one execution of a step makes at most one capability
\* call in total.
C17_AtMostOneCallPerStep ==
  pc = "stepped" => Len(calls) <= 1

\* C17, amended: one execution of a step makes at most one call to each
\* capability, and at most one call in total except in the lead search,
\* which calls the web search and then, only when the search returned at
\* least one result, the language model.
C17_AtMostOneCallPerCapability ==
  pc = "stepped" =>
    /\ \A i, j \in 1..Len(calls) :
         i # j => calls[i].capability # calls[j].capability
    /\ Len(calls) > 1 =>
         /\ LastStep = "search_managers"
         /\ [i \in 1..Len(calls) |-> calls[i].capability] = <<"search", "llm">>
         /\ io.search.kind = "ok" /\ ~NoResults(io.search.response)

\* the lead search got results and asked the model about them
C17_Witness ==
  /\ pc = "stepped"
  /\ ran = <<"search_managers">>
  /\ Len(calls) = 2
  /\ Has(upd, "leads")

\* C18: when the summary step succeeds, the conversation after the merge is
\* the conversation before the step followed by exactly one new message,
\* the summary: one message longer, the query first and occurring once.
C18_SummaryAppendsOneMessage ==
  (pc = "END" /\ Has(upd, "messages")) =>
    LET before == <<HumanMessage(Trim(query.text))>>
    IN  /\ st.messages = Append(before, AIMessage(io.llm.content))
        /\ Len(st.messages) = Len(before) + 1
        /\ Cardinality({i \in 1..Len(st.messages) : st.messages[i] = before[1]}) = 1

\* the state that results from merging the first n recorded updates, in
\* order, into the state agent.invoke started from
RECURSIVE MergedUpTo(_)
MergedUpTo(n) ==
  IF n = 0
    THEN InputState([messages |-> <<HumanMessage(Trim(query.text))>>,
                     currentStep |-> "process_query",
                     leads |-> << >>])
    ELSE Merge(MergedUpTo(n - 1), outs[n].upd)

StepIndex(name) == CHOOSE i \in 1..Len(StepNames) : StepNames[i] = name

\* C19: within one invocation the steps run one at a time in the order
\* process_query, enrich, search_managers, summarize: the steps run so far
\* are a prefix of that order (none twice, none after a later one), the
\* node due next is the one after the last that ran, and the state it
\* starts from holds the merged updates, capability calls included, of all
\* the steps before it.
C19_StepsRunOnceInOrder ==
  /\ Len(ran) <= Len(StepNames)
  /\ ran = SubSeq(StepNames, 1, Len(ran))
  /\ pc \in {"process_query", "enrich", "search_managers", "summarize", "END"} =>
       /\ pc = (IF Len(ran) = Len(StepNames) THEN "END" ELSE StepNames[Len(ran) + 1])
       /\ Len(outs) = Len(ran)
       /\ \A i \in 1..Len(outs) : outs[i].step = ran[i]
       /\ st = MergedUpTo(Len(outs))
  /\ \A i, j \in 1..Len(calls) :
       i < j => StepIndex(calls[i].step) <= StepIndex(calls[j].step)

\* a whole run: four steps, five capability calls
C19_Witness ==
  /\ pc = "returned"
  /\ ran = StepNames
  /\ Len(calls) = 5
  /\ envelope.success

\* C20: with the three credentials present, every invocation of
\* processCompany eventually returns an envelope, whatever the query and
\* whatever the capability calls answer, given that each call eventually
\* resolves or rejects.
C20_EventuallyReturns ==
  (env /\ pc = "start") ~> (pc = "returned" /\ envelope # NoEnvelope)

\* an invocation with credentials has gone through all four steps and returned
C20_Witness ==
  /\ env
  /\ pc = "returned"
  /\ ran = StepNames
  /\ Has(envelope, "success")

\* the answer of the model parses as a JSON array as it stands
IsJsonArray(content) ==
  JsonParse(content).ok /\ JsonParse(content).val.t = "array"

\* the lead search got an answer that is no JSON array itself but holds,
\* from its first '[' to its last ']', a JSON array of objects
EmbeddedArraySeen ==
  /\ LeadAnswerSeen
  /\ ~IsJsonArray(io.llm.content)
  /\ HasJsonMatch(io.llm.content)
  /\ IsJsonArray(JsonMatch(io.llm.content))
  /\ \A i \in 1..Len(JsonParse(JsonMatch(io.llm.content)).val.items) :
       JsonParse(JsonMatch(io.llm.content)).val.items[i].t = "object"

\* the step returned one lead per object of the embedded array, in order,
\* "Unknown" standing for a missing name or role, and no placeholder
LeadsFromEmbeddedArray ==
  LET items == JsonParse(JsonMatch(io.llm.content)).val.items
  IN  /\ ~Has(upd, "error")
      /\ Has(upd, "leads")
      /\ Len(upd.leads) = Len(items)
      /\ \A i \in 1..Len(items) :
           /\ upd.leads[i].name =
                (IF Has(items[i].fields, "name") THEN items[i].fields.name ELSE "Unknown")
           /\ upd.leads[i].role =
                (IF Has(items[i].fields, "role") THEN items[i].fields.role ELSE "Unknown")
           /\ upd.leads[i].role # "Engineering Manager"
           /\ upd.leads[i].name # "Manager " \o ToString(i)

\* the leads the step returned are the placeholders built from the results
PlaceholdersUsed ==
  /\ LeadAnswerSeen
  /\ Has(upd, "leads")
  /\ upd.leads = PlaceholderLeads(io.search.response.results)

\* C21 as stated: an embedded array of k lead objects gives exactly those k
\* leads and no placeholder, and placeholders are used only when both the
\* strict parse of the answer and the parse of its substring fail.
C21_PlaceholdersOnlyWhenBothParsesFail ==
  /\ EmbeddedArraySeen => LeadsFromEmbeddedArray
  /\ PlaceholdersUsed =>
       /\ ~JsonParse(io.llm.content).ok
       /\ HasJsonMatch(io.llm.content) => ~JsonParse(JsonMatch(io.llm.content)).ok

\* C21, amended: an embedded array of k lead objects gives exactly those k
\* leads, in order, "Unknown" for a missing name or role, and no
\* placeholder; placeholders are used only when the text the step parses
\* (the substring from the first '[' to the last ']' if there is one, the
\* whole answer otherwise) fails to parse, or parses as an array that has a
\* null element.
C21_EmbeddedArrayGivesItsLeads ==
  /\ EmbeddedArraySeen => LeadsFromEmbeddedArray
  /\ PlaceholdersUsed =>
       LET c == IF HasJsonMatch(io.llm.content)
                  THEN JsonMatch(io.llm.content) ELSE io.llm.content
       IN  \/ ~JsonParse(c).ok
           \/ /\ IsJsonArray(c)
              /\ \E i \in 1..Len(JsonParse(c).val.items) :
                   JsonParse(c).val.items[i].t = "null"

\* an array of two objects inside prose, the second without name and role
C21_Witness ==
  /\ EmbeddedArraySeen
  /\ Len(io.llm.content) > Len(JsonMatch(io.llm.content))
  /\ Len(upd.leads) >= 1
  /\ \E i \in 1..Len(upd.leads) : upd.leads[i].name = "Unknown"

==========================================================================
